---- MODULE Spec2Model ----
(***************************************************************************)
(* State-machine model of src/server.js: an Express server over two        *)
(* Sequelize tables (users, contents) with JWT authentication.             *)
(*                                                                         *)
(* One step of the model is one database statement together with the       *)
(* handler code that runs up to the next await (or up to the response).    *)
(* A handler with two statements (lookup, then write) is two steps, so     *)
(* other requests' statements interleave between them exactly where the    *)
(* event loop lets them.                                                   *)
(*                                                                         *)
(* Not modelled: the content columns title, content, type, category,       *)
(* tags, featuredImage, videoUrl, readTime and the timestamps (a request   *)
(* body is reduced to "required columns valid or not"), and a database     *)
(* that is unreachable.                                                    *)
(***************************************************************************)
EXTENDS Integers, Sequences, FiniteSets, Bags, TLC

\* ---------------------------------------------------------------- bounds
\* Registrable e-mail addresses besides admin@news.com.
MaxEmails == 1
\* Rows of the contents table.
MaxContents == 1
\* Requests in flight between two of their database statements.
MaxReq == 2
\* Largest value of Content.views.
MaxViews == 2
\* Server processes sharing the database (process starts that may overlap).
MaxProcs == 2

\* ------------------------------------------------------------- constants
\* 'admin@news.com', the e-mail of the seeded publisher; the other
\* addresses are 1..MaxEmails. A username is written as the e-mail's number.
AdminEmail == 0
Emails == 0..MaxEmails

\* The seeded account's password and the password clients register with.
SeedPassword == "publisher123"
Passwords == {"pw1", SeedPassword}

\* A value the request did not supply (JavaScript undefined).
Undefined == "undefined"
NoInt == 0 - 1
\* JSON null for an integer column.
NullInt == 0 - 2

Roles == {"publisher", "user"}
Statuses == {"draft", "published", "archived"}

\* bcrypt.hash(password, 10) and bcrypt.compare: the digest is not the
\* plaintext, and compare accepts exactly the plaintext that was hashed.
Hash(pw) == <<"bcrypt10", pw>>
Compare(pw, digest) == digest = Hash(pw)

\* jwt.sign({ id, username, role }, JWT_SECRET, { expiresIn: '24h' })
Claims(user) == [id |-> user.id, username |-> user.username, role |-> user.role]
NoClaims == [id |-> 0, username |-> 0, role |-> "none"]

VARIABLES
    users,      \* the users table, in id order
    contents,   \* the contents table, in id order
    reqs,       \* the handlers suspended on a database statement (a bag)
    resp,       \* the outcome of the handler step just taken
    procs,      \* each server process's position in initializeDatabase
    synced,     \* the tables exist (sequelize.sync has run)
    seeded,     \* number of users created by syncDatabase
    expected    \* per content: views at its last explicit write + 200 fetches since

vars == <<users, contents, reqs, resp, procs, synced, seeded, expected>>

\* ------------------------------------------------------------ the tables
UserIds == 1..Len(users)
ContentIds == 1..Len(contents)

\* User.findOne({ where: { email } }): 0 when no row matches.
FindUserByEmail(email) ==
    IF \E i \in UserIds : users[i].email = email
    THEN CHOOSE i \in UserIds : users[i].email = email
    ELSE 0

\* User.findOne({ where: { role: 'publisher' } }) finds a row.
PublisherExists == \E i \in UserIds : users[i].role = "publisher"

\* The users table's constraints on an insert: username not null, role in
\* the enum, email unique.
UserInsertError(username, email, role) ==
    IF username = NoInt THEN "notNull Violation"
    ELSE IF role \notin Roles THEN "invalid input value for enum"
    ELSE IF FindUserByEmail(email) # 0 THEN "Validation error"
    ELSE "ok"

NewUser(username, email, password, role) ==
    [id |-> Len(users) + 1, username |-> username, email |-> email,
     password |-> password, role |-> role, profile |-> "{}"]

\* The object a handler builds from a row: the listed attributes only.
Pick(row, attrs) == [f \in attrs |-> row[f]]

\* ------------------------------------------------- requests and responses
Procs == 1..MaxProcs

\* A handler suspended between two statements: the locals it still holds
\* (the request's e-mail or content id, req.user, the row it has read).
Cont(pc, email, cid, user, status, views) ==
    [pc |-> pc, email |-> email, cid |-> cid, user |-> user,
     status |-> status, views |-> views]

InFlight == BagToSet(reqs)
Suspend(c) == reqs (+) SetToBag({c})
Resume(c) == reqs (-) SetToBag({c})
CanSuspend == BagCardinality(reqs) < MaxReq

\* The outcome of one handler step: the route, the step ("first" runs the
\* middleware and the first statement, "second" the statement after it), the
\* status code and error text sent (status 0: nothing sent yet), the request
\* (e-mail, content id, kind of Authorization header, claims in its token),
\* req.user as the middleware left it, the attribute names of the user
\* objects in the body and the status column of the content rows in the body.
NoResp == [route |-> "none", step |-> "none", status |-> 0, error |-> "",
           email |-> 0, cid |-> 0, auth |-> "none", token |-> NoClaims,
           user |-> NoClaims, exposed |-> {}, statuses |-> {}]

Reply(route, step, status, error) ==
    [NoResp EXCEPT !.route = route, !.step = step, !.status = status, !.error = error]

\* A request is served by a process that is listening, against synced tables.
\* Node runs one handler step at a time. resp holds the outcome of the step
\* just taken until Sent takes it off, and the next step starts after that;
\* Sent changes nothing else, so no interleaving of statements is lost.
Quiet == resp = NoResp
Listening == Quiet /\ \E p \in Procs : procs[p].pc # "down"
Serving == synced /\ Listening
Resuming(c, pc) == Quiet /\ c \in InFlight /\ c.pc = pc

\* ------------------------------------------------------------ middleware
\* An Authorization header: absent, without a second word ('Bearer'), a
\* token jwt.verify rejects (bad signature, or a signed token past its 24h),
\* or a signed token within its 24h. Register and login sign a token for any
\* user row, so the signed tokens are those of the user rows.
Headers ==
    {[kind |-> k, claims |-> NoClaims] : k \in {"absent", "oneWord", "garbage"}}
    \cup {[kind |-> k, claims |-> Claims(users[i])] : k \in {"expired", "valid"}, i \in UserIds}

\* const token = authHeader && authHeader.split(' ')[1]
HasToken(h) == h.kind \notin {"absent", "oneWord"}

\* jwt.verify(token, JWT_SECRET, cb): err unless signed and not expired.
Verifies(h) == h.kind = "valid"

Rejected(status, error) == [next |-> FALSE, status |-> status, error |-> error, user |-> NoClaims]

\* A verification whose error is not checked.
UncheckedAuthenticateToken(h) ==
    IF ~HasToken(h) THEN Rejected(401, "Access token required")
    ELSE [next |-> TRUE, status |-> 0, error |-> "", user |-> h.claims]

\* authenticateToken: the response it sends, or next() with req.user set.
authenticateToken(h) ==
    IF ~HasToken(h) THEN Rejected(401, "Access token required")
    ELSE IF ~Verifies(h) THEN Rejected(403, "Invalid token")
    ELSE [next |-> TRUE, status |-> 0, error |-> "", user |-> h.claims]

\* A role check that lets every verified token through.
NoRequirePublisher(a) == a

\* requirePublisher, reached only through authenticateToken's next().
requirePublisher(a) ==
    IF ~a.next THEN a
    ELSE IF a.user.role # "publisher"
         THEN [a EXCEPT !.next = FALSE, !.status = 403, !.error = "Publisher access required"]
         ELSE a

\* The outcome of a first step on a request with header h after middleware m.
Outcome(route, h, m, status, error) ==
    [Reply(route, "first", status, error) EXCEPT
        !.auth = h.kind, !.token = h.claims, !.user = m.user]

\* The response the middleware sends when it does not call next().
Denied(route, h, m) == Outcome(route, h, m, m.status, m.error)

PublisherRoutes == {"publisherContents", "createContent", "updateContent", "publishContent"}

\* ------------------------------------------------------------------ GET /
Home ==
    /\ Listening
    /\ resp' = Reply("home", "first", 200, "")
    /\ UNCHANGED <<users, contents, reqs, procs, synced, seeded, expected>>

\* The outcome has been observed (a response: the client has it).
Sent ==
    /\ resp # NoResp
    /\ resp' = NoResp
    /\ UNCHANGED <<users, contents, reqs, procs, synced, seeded, expected>>

\* --------------------------------------------------------- POST /api/register
\* The attributes of the user object in the register and login responses.
PublicUserAttributes == {"id", "username", "email", "role"}

\* const existingUser = await User.findOne({ where: { email } })
RegisterLookup(email) ==
    /\ Serving
    /\ IF FindUserByEmail(email) # 0
       THEN /\ resp' = [Reply("register", "first", 400, "User already exists") EXCEPT !.email = email]
            /\ UNCHANGED reqs
       ELSE /\ CanSuspend
            /\ reqs' = Suspend(Cont("register", email, 0, NoClaims, "none", 0))
            /\ resp' = [Reply("register", "first", 0, "") EXCEPT !.email = email]
    /\ UNCHANGED <<users, contents, procs, synced, seeded, expected>>

\* bcrypt.hash, User.create, jwt.sign and the 201; any throw is the 500.
RegisterCreate(c, username, password, roleIn) ==
    /\ Resuming(c, "register")
    /\ LET role == IF roleIn = Undefined THEN "user" ELSE roleIn
           err == IF password = Undefined THEN "Illegal arguments"
                  ELSE UserInsertError(username, c.email, role)
           user == NewUser(username, c.email, Hash(password), role)
       IN  IF err = "ok"
           THEN /\ users' = Append(users, user)
                /\ resp' = [Reply("register", "second", 201, "") EXCEPT
                               !.email = c.email,
                               !.token = Claims(user),
                               !.exposed = DOMAIN Pick(user, PublicUserAttributes)]
           ELSE /\ resp' = [Reply("register", "second", 500, err) EXCEPT !.email = c.email]
                /\ UNCHANGED users
    /\ reqs' = Resume(c)
    /\ UNCHANGED <<contents, procs, synced, seeded, expected>>

\* ------------------------------------------------------------ POST /api/login
Login(email, password) ==
    /\ Serving
    /\ LET i == FindUserByEmail(email)
       IN  resp' =
             IF i = 0
             THEN [Reply("login", "first", 400, "Invalid credentials") EXCEPT !.email = email]
             ELSE IF password = Undefined
             THEN [Reply("login", "first", 500, "Illegal arguments") EXCEPT !.email = email]
             ELSE IF ~Compare(password, users[i].password)
             THEN [Reply("login", "first", 400, "Invalid credentials") EXCEPT !.email = email]
             ELSE [Reply("login", "first", 200, "") EXCEPT
                      !.email = email,
                      !.token = Claims(users[i]),
                      !.exposed = DOMAIN Pick(users[i], PublicUserAttributes)]
    /\ UNCHANGED <<users, contents, reqs, procs, synced, seeded, expected>>

\* ---------------------------------------------------------- GET /api/profile
UserAttributes == {"id", "username", "email", "password", "role", "profile"}

\* A findByPk without the exclusion.
AllUserAttributes == UserAttributes

\* attributes: { exclude: ['password'] }
ProfileAttributes == UserAttributes \ {"password"}

Profile(h) ==
    /\ Serving
    /\ LET a == authenticateToken(h)
       IN  IF ~a.next
           THEN resp' = Denied("profile", h, a)
           ELSE resp' = [Outcome("profile", h, a, 200, "") EXCEPT
                            !.exposed = IF a.user.id \in UserIds
                                        THEN DOMAIN Pick(users[a.user.id], ProfileAttributes)
                                        ELSE {}]
    /\ UNCHANGED <<users, contents, reqs, procs, synced, seeded, expected>>

\* ------------------------------------------------------- initializeDatabase
Down == [pc |-> "down", sawNone |-> FALSE, created |-> 0]
Up == [pc |-> "up", sawNone |-> TRUE, created |-> 1]

\* node server.js: app.listen and initializeDatabase() start together.
Start(p) ==
    /\ Quiet
    /\ procs[p].pc \in {"down", "up"}
    /\ procs' = [procs EXCEPT ![p] = [Down EXCEPT !.pc = "sync"]]
    /\ UNCHANGED <<users, contents, reqs, resp, synced, seeded, expected>>

\* await sequelize.sync({ force: false })
BootSync(p) ==
    /\ Quiet
    /\ procs[p].pc = "sync"
    /\ synced' = TRUE
    /\ procs' = [procs EXCEPT ![p].pc = "find"]
    /\ UNCHANGED <<users, contents, reqs, resp, seeded, expected>>

\* const existingPublisher = await User.findOne({ where: { role: 'publisher' } })
BootFind(p) ==
    /\ Quiet
    /\ procs[p].pc = "find"
    /\ procs' = [procs EXCEPT ![p] =
                    IF PublisherExists
                    THEN [@ EXCEPT !.pc = "up"]
                    ELSE [@ EXCEPT !.pc = "create", !.sawNone = TRUE]]
    /\ UNCHANGED <<users, contents, reqs, resp, synced, seeded, expected>>

\* await User.create({ username: 'admin', email: 'admin@news.com', ... });
\* a rejected insert is caught and logged by syncDatabase.
BootCreate(p) ==
    /\ Quiet
    /\ procs[p].pc = "create"
    /\ IF UserInsertError(AdminEmail, AdminEmail, "publisher") = "ok"
       THEN /\ users' = Append(users, NewUser(AdminEmail, AdminEmail, Hash(SeedPassword), "publisher"))
            /\ seeded' = seeded + 1
            /\ procs' = [procs EXCEPT ![p].pc = "up", ![p].created = 1]
       ELSE /\ procs' = [procs EXCEPT ![p].pc = "up"]
            /\ UNCHANGED <<users, seeded>>
    /\ UNCHANGED <<contents, reqs, resp, synced, expected>>

\* -------------------------------------------- the bootstrap and the accounts
\* An empty database and no process running.
InitBoot ==
    /\ users = <<>>
    /\ contents = <<>>
    /\ reqs = EmptyBag
    /\ resp = NoResp
    /\ procs = [p \in Procs |-> Down]
    /\ synced = FALSE
    /\ seeded = 0
    /\ expected = <<>>

UsernamesIn(email) == {email, NoInt}
PasswordsIn == Passwords \cup {Undefined}
RolesIn == Roles \cup {Undefined, "admin"}

NextBoot ==
    \/ Sent
    \/ \E p \in Procs : Start(p)
    \/ \E p \in Procs : BootSync(p)
    \/ \E p \in Procs : BootFind(p)
    \/ \E p \in Procs : BootCreate(p)
    \/ \E e \in Emails : RegisterLookup(e)
    \/ \E c \in InFlight, pw \in PasswordsIn, r \in RolesIn :
          \E n \in UsernamesIn(c.email) : RegisterCreate(c, n, pw, r)
    \/ \E e \in Emails, pw \in PasswordsIn : Login(e, pw)

SpecBoot == InitBoot /\ [][NextBoot]_vars

\* ---------------------------------------------------------- the contents table
\* The publisher identity joined into the public content responses:
\* include: [{ model: User, attributes: ['id', 'username', 'profile'] }]
IncludedUserAttributes == {"id", "username", "profile"}

Included(row) ==
    IF row.publisherId \in UserIds
    THEN DOMAIN Pick(users[row.publisherId], IncludedUserAttributes)
    ELSE {}

\* A contents table without the reference to users.
NoForeignKey(publisherId) == TRUE

\* publisherId: references: { model: 'users', key: 'id' }
ForeignKeyOk(publisherId) == publisherId \in UserIds

\* The contents table's constraints on the columns a statement writes:
\* required columns present, status in the enum, publisherId not null and
\* the id of a users row.
ContentWriteError(valid, status, publisherId) ==
    IF ~valid \/ publisherId = NullInt THEN "notNull Violation"
    ELSE IF status \notin Statuses THEN "invalid input value for enum"
    ELSE IF ~ForeignKeyOk(publisherId) THEN "violates foreign key constraint"
    ELSE "ok"

\* -------------------------------------------------------- GET /api/contents
\* where = { status: 'published' }
PublicWhere(row) == row.status = "published"

Reverse(seq) == [i \in 1..Len(seq) |-> seq[Len(seq) + 1 - i]]

\* order: [['createdAt', 'DESC']], limit, offset
Page(rows, page, limit) ==
    LET offset == (page - 1) * limit
        desc == Reverse(rows)
    IN  SubSeq(desc, offset + 1, IF offset + limit < Len(desc) THEN offset + limit ELSE Len(desc))

ListContents(page, limit) ==
    /\ Serving
    /\ LET rows == Page(SelectSeq(contents, PublicWhere), page, limit)
       IN  resp' = [Reply("contents", "first", 200, "") EXCEPT
                       !.statuses = {rows[i].status : i \in 1..Len(rows)},
                       !.exposed = UNION {Included(rows[i]) : i \in 1..Len(rows)}]
    /\ UNCHANGED <<users, contents, reqs, procs, synced, seeded, expected>>

\* ---------------------------------------------------- GET /api/contents/:id
\* Content.findOne({ where: { id: req.params.id, status: 'published' }, include })
FetchLookup(cid) ==
    /\ Serving
    /\ IF cid \in ContentIds /\ PublicWhere(contents[cid])
       THEN /\ CanSuspend
            /\ reqs' = Suspend(Cont("fetch", 0, cid, NoClaims, contents[cid].status, contents[cid].views))
            /\ resp' = [Reply("content", "first", 0, "") EXCEPT !.cid = cid]
       ELSE /\ resp' = [Reply("content", "first", 404, "Content not found") EXCEPT !.cid = cid]
            /\ UNCHANGED reqs
    /\ UNCHANGED <<users, contents, procs, synced, seeded, expected>>

\* An increment computed from the instance the handler read.
ReadModifyWrite(stored, read) == read + 1

\* content.increment('views'): UPDATE contents SET views = views + 1 WHERE id
IncrementViews(stored, read) == stored + 1

\* await content.increment('views'); res.json(content)
FetchIncrement(c) ==
    /\ Resuming(c, "fetch")
    /\ contents[c.cid].views < MaxViews
    /\ contents' = [contents EXCEPT ![c.cid].views = IncrementViews(@, c.views)]
    /\ expected' = [expected EXCEPT ![c.cid] = @ + 1]
    /\ resp' = [Reply("content", "second", 200, "") EXCEPT
                   !.cid = c.cid,
                   !.statuses = {c.status},
                   !.exposed = Included(contents[c.cid])]
    /\ reqs' = Resume(c)
    /\ UNCHANGED <<users, procs, synced, seeded>>

\* ------------------------------------------------ GET /api/publisher/contents
PublisherContents(h) ==
    /\ Serving
    /\ LET m == requirePublisher(authenticateToken(h))
       IN  IF ~m.next
           THEN resp' = Denied("publisherContents", h, m)
           ELSE resp' = [Outcome("publisherContents", h, m, 200, "") EXCEPT
                            !.statuses = {contents[i].status :
                                            i \in {j \in ContentIds : contents[j].publisherId = m.user.id}}]
    /\ UNCHANGED <<users, contents, reqs, procs, synced, seeded, expected>>

\* ----------------------------------------------- POST /api/publisher/contents
\* A request body: whether title, content and type are there and valid, and
\* the status, views and publisherId it carries.
CreateBodies ==
    [valid : BOOLEAN, status : {Undefined, "published"}, views : {NoInt, 1},
     publisherId : {NoInt} \cup UserIds]

\* A create that passes the body's columns on.
NewContentFromBody(body, uid) ==
    [id |-> Len(contents) + 1,
     status |-> IF body.status = Undefined THEN "draft" ELSE body.status,
     views |-> IF body.views = NoInt THEN 0 ELSE body.views,
     publisherId |-> IF body.publisherId = NoInt THEN uid ELSE body.publisherId]

\* Content.create({ title, ..., readTime, publisherId: req.user.id }) with the
\* defaults status 'draft' and views 0.
NewContent(body, uid) ==
    [id |-> Len(contents) + 1, status |-> "draft", views |-> 0, publisherId |-> uid]

CreateContent(h) ==
    /\ Serving
    /\ LET m == requirePublisher(authenticateToken(h))
       IN  IF ~m.next
           THEN resp' = Denied("createContent", h, m) /\ UNCHANGED <<contents, expected>>
           ELSE \E body \in CreateBodies :
                LET row == NewContent(body, m.user.id)
                    err == ContentWriteError(body.valid, row.status, row.publisherId)
                IN  IF err # "ok"
                    THEN resp' = Outcome("createContent", h, m, 500, err)
                         /\ UNCHANGED <<contents, expected>>
                    ELSE /\ Len(contents) < MaxContents
                         /\ contents' = Append(contents, row)
                         /\ expected' = Append(expected, row.views)
                         /\ resp' = [Outcome("createContent", h, m, 201, "") EXCEPT
                                        !.cid = row.id, !.statuses = {row.status}]
    /\ UNCHANGED <<users, reqs, procs, synced, seeded>>

\* ------------------------------------------- PUT /api/publisher/contents/:id
\* A where clause that leaves the owner out.
AnyOwner(row, uid) == TRUE

\* where: { id: req.params.id, publisherId: req.user.id }
OwnedBy(row, uid) == row.publisherId = uid

\* The first step of both PUT routes: middleware, then Content.findOne.
OwnerLookup(route, pc, h, cid) ==
    /\ Serving
    /\ LET m == requirePublisher(authenticateToken(h))
       IN  IF ~m.next
           THEN resp' = [Denied(route, h, m) EXCEPT !.cid = cid] /\ UNCHANGED reqs
           ELSE IF cid \in ContentIds /\ OwnedBy(contents[cid], m.user.id)
           THEN /\ CanSuspend
                /\ reqs' = Suspend(Cont(pc, 0, cid, m.user, contents[cid].status, 0))
                /\ resp' = [Outcome(route, h, m, 0, "") EXCEPT !.cid = cid]
           ELSE /\ resp' = [Outcome(route, h, m, 404, "Content not found") EXCEPT !.cid = cid]
                /\ UNCHANGED reqs
    /\ UNCHANGED <<users, contents, procs, synced, seeded, expected>>

UpdateLookup(h, cid) == OwnerLookup("updateContent", "update", h, cid)

\* req.body of the update: the status, views and publisherId it carries
\* (any of the other columns may be in it as well).
UpdateBodies ==
    [status : Statuses \cup {Undefined, "bogus"},
     views : {NoInt} \cup 0..MaxViews,
     publisherId : {NoInt, NullInt} \cup 1..(Len(users) + 1)]

\* The row after UPDATE contents SET <the body's columns> WHERE id.
Updated(row, body) ==
    [row EXCEPT !.status = IF body.status = Undefined THEN @ ELSE body.status,
                !.views = IF body.views = NoInt THEN @ ELSE body.views,
                !.publisherId = IF body.publisherId = NoInt THEN @ ELSE body.publisherId]

\* await content.update(req.body); res.json(content)
UpdateWrite(c, body) ==
    /\ Resuming(c, "update")
    /\ LET row == Updated(contents[c.cid], body)
           err == ContentWriteError(TRUE, row.status, row.publisherId)
           out == [Reply("updateContent", "second", 200, "") EXCEPT
                      !.cid = c.cid, !.auth = "valid", !.token = c.user, !.user = c.user]
       IN  IF err = "ok"
           THEN /\ contents' = [contents EXCEPT ![c.cid] = row]
                /\ expected' = [expected EXCEPT ![c.cid] =
                                   IF body.views = NoInt THEN @ ELSE body.views]
                /\ resp' = [out EXCEPT !.statuses = {row.status}]
           ELSE /\ resp' = [out EXCEPT !.status = 500, !.error = err]
                /\ UNCHANGED <<contents, expected>>
    /\ reqs' = Resume(c)
    /\ UNCHANGED <<users, procs, synced, seeded>>

\* ----------------------------------- PUT /api/publisher/contents/:id/publish
PublishLookup(h, cid) == OwnerLookup("publishContent", "publish", h, cid)

\* await content.update({ status: 'published' }): the instance saves the
\* column only when it differs from the value it read.
PublishWrite(c) ==
    /\ Resuming(c, "publish")
    /\ contents' = IF c.status = "published" THEN contents
                   ELSE [contents EXCEPT ![c.cid].status = "published"]
    /\ resp' = [Reply("publishContent", "second", 200, "") EXCEPT
                   !.cid = c.cid, !.auth = "valid", !.token = c.user, !.user = c.user,
                   !.statuses = {"published"}]
    /\ reqs' = Resume(c)
    /\ UNCHANGED <<users, procs, synced, seeded, expected>>

\* ------------------------------------------------------------- the server
\* The database after the first process start: initializeDatabase has
\* synced the tables and seeded the publisher, and the process is listening.
Init ==
    /\ users = <<[id |-> 1, username |-> AdminEmail, email |-> AdminEmail,
                  password |-> Hash(SeedPassword), role |-> "publisher", profile |-> "{}"]>>
    /\ contents = <<>>
    /\ reqs = EmptyBag
    /\ resp = NoResp
    /\ procs = [p \in Procs |-> IF p = 1 THEN Up ELSE Down]
    /\ synced = TRUE
    /\ seeded = 1
    /\ expected = <<>>

\* Content ids a request may name: the rows and one id past them.
IdsIn == 1..(Len(contents) + 1)
PagesIn == {1, 2}
LimitsIn == {1, 10}

Next ==
    \/ Sent
    \/ Home
    \/ \E e \in Emails : RegisterLookup(e)
    \/ \E c \in InFlight, pw \in PasswordsIn, r \in RolesIn :
          \E n \in UsernamesIn(c.email) : RegisterCreate(c, n, pw, r)
    \/ \E e \in Emails, pw \in PasswordsIn : Login(e, pw)
    \/ \E h \in Headers : Profile(h)
    \/ \E page \in PagesIn, limit \in LimitsIn : ListContents(page, limit)
    \/ \E cid \in IdsIn : FetchLookup(cid)
    \/ \E c \in InFlight : FetchIncrement(c)
    \/ \E h \in Headers : PublisherContents(h)
    \/ \E h \in Headers : CreateContent(h)
    \/ \E h \in Headers, cid \in IdsIn : UpdateLookup(h, cid)
    \/ \E c \in InFlight, body \in UpdateBodies : UpdateWrite(c, body)
    \/ \E h \in Headers, cid \in IdsIn : PublishLookup(h, cid)
    \/ \E c \in InFlight : PublishWrite(c)

Spec == Init /\ [][Next]_vars

\* ------------------------------------------------------------- properties
\* A handler step: the step that puts an outcome into resp.
HandlerStep == resp = NoResp /\ resp' # NoResp

\* The errors of a register request whose own fields are rejected.
FieldErrors == {"Illegal arguments", "notNull Violation", "invalid input value for enum"}

\* C1. Of two register requests with the same e-mail, the one that does not
\* create the user gets 400 'User already exists' (never 201, never 500),
\* however their statements interleave; and no two user rows share an
\* e-mail. Stated for the requests whose own fields the table accepts.
C1_DuplicateEmailGets400 ==
    /\ (resp.route = "register" /\ resp.status \notin {0, 201}
            /\ resp.error \notin FieldErrors
            /\ FindUserByEmail(resp.email) # 0)
        => (resp.status = 400 /\ resp.error = "User already exists")
    /\ \A i, j \in UserIds : users[i].email = users[j].email => i = j

C3_PublicOnlyPublished ==
    /\ resp.route = "contents" => resp.statuses \subseteq {"published"}
    /\ (resp.route = "content" /\ resp.step = "first" /\ resp.cid \in ContentIds
            /\ contents[resp.cid].status # "published")
        => resp.status = 404
    /\ (resp.route = "content" /\ resp.status = 200)
        => contents[resp.cid].status = "published"

\* C4. A PUT /api/publisher/contents/:id or .../:id/publish with a
\* publisher's token whose id is not the publisherId of the row it names
\* gets 404 and changes no row (nor goes on to its write).
C4_OnlyOwnerMutates ==
    [][(/\ HandlerStep
        /\ resp'.route \in {"updateContent", "publishContent"}
        /\ resp'.step = "first"
        /\ resp'.auth = "valid"
        /\ resp'.token.role = "publisher"
        /\ resp'.cid \in ContentIds
        /\ contents[resp'.cid].publisherId # resp'.token.id)
       => (resp'.status = 404 /\ contents' = contents /\ reqs' = reqs)]_vars

\* A publisher was refused another publisher's row.
C4_Witness ==
    /\ resp.route \in {"updateContent", "publishContent"}
    /\ resp.status = 404
    /\ resp.token.role = "publisher"
    /\ resp.cid \in ContentIds
    /\ contents[resp.cid].publisherId # resp.token.id

\* C5. A request with a valid token whose role is 'user' gets 403
\* 'Publisher access required' on every publisher-only route and neither
\* creates nor changes a content row.
C5_UserRoleRefused ==
    [][(/\ HandlerStep
        /\ resp'.route \in PublisherRoutes
        /\ resp'.auth = "valid"
        /\ resp'.token.role = "user")
       => (/\ resp'.status = 403
           /\ resp'.error = "Publisher access required"
           /\ contents' = contents
           /\ reqs' = reqs)]_vars

\* A user-role token was refused on the update of an existing row.
C5_Witness ==
    /\ resp.route = "updateContent"
    /\ resp.status = 403
    /\ resp.token.role = "user"
    /\ resp.cid \in ContentIds

\* C6. Every content row's publisherId is the id of a user row.
C6_EveryContentHasOwner ==
    \A cid \in ContentIds : contents[cid].publisherId \in UserIds

\* An update has moved a row to another user.
C6_Witness ==
    /\ resp.route = "updateContent" /\ resp.status = 200
    /\ contents[resp.cid].publisherId # resp.token.id

\* C7. A row created through POST /api/publisher/contents has status
\* 'draft', views 0 and the publisherId of the caller's token, so it is not
\* publicly visible.
C7_CreatedAsDraft ==
    (resp.route = "createContent" /\ resp.status = 201)
    => (/\ resp.cid = Len(contents)
        /\ contents[resp.cid].status = "draft"
        /\ contents[resp.cid].views = 0
        /\ contents[resp.cid].publisherId = resp.token.id
        /\ ~PublicWhere(contents[resp.cid]))

C7_Witness == resp.route = "createContent" /\ resp.status = 201

\* C8. On a protected route a request without a token gets 401 'Access
\* token required' and one with a token that does not verify gets 403
\* 'Invalid token'; in both cases nothing is written, no handler is
\* started and req.user is not set; req.user is set only to the claims of
\* a verified token.
ProtectedRoutes == PublisherRoutes \cup {"profile"}

C8_AuthenticationFirst ==
    [][(HandlerStep /\ resp'.route \in ProtectedRoutes /\ resp'.step = "first")
       => (/\ resp'.auth \in {"absent", "oneWord"}
                => (resp'.status = 401 /\ resp'.error = "Access token required")
           /\ resp'.auth \in {"garbage", "expired"}
                => (resp'.status = 403 /\ resp'.error = "Invalid token")
           /\ resp'.auth # "valid"
                => (/\ resp'.user = NoClaims
                    /\ users' = users /\ contents' = contents /\ reqs' = reqs)
           /\ resp'.user # NoClaims
                => (resp'.auth = "valid" /\ resp'.user = resp'.token))]_vars

\* An expired token of a publisher was refused on an existing row.
C8_Witness ==
    /\ resp.route = "updateContent"
    /\ resp.auth = "expired"
    /\ resp.token.role = "publisher"
    /\ resp.status = 403
    /\ resp.cid \in ContentIds

\* C9. When a process start that found no publisher has finished, a
\* publisher-role user exists; a start that found a publisher created no
\* user; at most one account is ever seeded.
C9_BootstrapSeedsPublisher ==
    /\ \A p \in Procs :
          (procs[p].pc = "up" /\ procs[p].sawNone) => PublisherExists
    /\ \A p \in Procs :
          (procs[p].pc = "up" /\ ~procs[p].sawNone) => procs[p].created = 0
    /\ seeded <= 1

\* C10. No response carries the password attribute of a user row.
C10_NoPasswordInResponses == "password" \notin resp.exposed

\* The profile route has sent a user row.
C10_Witness ==
    /\ resp.route = "profile"
    /\ resp.status = 200
    /\ "email" \in resp.exposed

====
